---- MODULE Spec2Model ----
(***************************************************************************)
(* Model of static/js/script.js: the promise chain                         *)
(*   fetch("/data").then(res => res.json()).then(data => { ... })          *)
(* and the DOM it mutates.  The heap `elems` holds every element of the     *)
(* page (index = element identity); the callback's locals and its position  *)
(* are state variables, one action per step of the chain.                   *)
(***************************************************************************)
EXTENDS Integers, Sequences, FiniteSets, TLC

VARIABLES pc, elems, elems0, response, data, table, tr, i, j,
          requests, resumedOk, resumedErr, settled, lookups

vars == <<pc, elems, elems0, response, data, table, tr, i, j,
          requests, resumedOk, resumedErr, settled, lookups>>

(* ------------------------------ bounds --------------------------------- *)
MaxRows  == 2    \* rows in a payload
MaxCells == 2    \* values in a row
MaxInit  == 1    \* children the container holds before the script runs

(* ---------------------------- JSON values ------------------------------ *)
Str(s)     == [t |-> "string",    s |-> s,  n |-> 0, items |-> <<>>]
Num(n)     == [t |-> "number",    s |-> "", n |-> n, items |-> <<>>]
Arr(items) == [t |-> "array",     s |-> "", n |-> 0, items |-> items]
JNull      == [t |-> "null",      s |-> "", n |-> 0, items |-> <<>>]
JUndefined == [t |-> "undefined", s |-> "", n |-> 0, items |-> <<>>]

SeqsUpTo(S, n) == UNION {[1..k -> S] : k \in 0..n}

CellValues  == {Str("Alice"), Num(10)}
NonSeqRows  == {JNull, Num(7)}
Rows        == NonSeqRows \cup {Arr(c) : c \in SeqsUpTo(CellValues, MaxCells)}
Payloads    == {JNull, Str("error")} \cup {Arr(r) : r \in SeqsUpTo(Rows, MaxRows)}

Null == 0

NoResponse == [status |-> 0, valid |-> FALSE, value |-> JUndefined]
Statuses   == {200, 500}
Responses  == {[status |-> st, valid |-> FALSE, value |-> JUndefined] : st \in Statuses}
              \cup {[status |-> st, valid |-> TRUE, value |-> p] : st \in Statuses, p \in Payloads}

(* ------------------------------- DOM ----------------------------------- *)
Node(tag, idAttr, src) ==
    [tag |-> tag, idAttr |-> idAttr, text |-> "", children |-> <<>>, src |-> src]

\* document.getElementById: the first element carrying the id, else null
GetElementById(heap, name) ==
    IF \E e \in 1..Len(heap) : heap[e].idAttr = name
    THEN CHOOSE e \in 1..Len(heap) :
            /\ heap[e].idAttr = name
            /\ \A f \in 1..(e - 1) : heap[f].idAttr # name
    ELSE Null

\* document.createElement: a fresh, detached element
CreateElement(heap, tag, src) == Append(heap, Node(tag, "", src))
NewId(heap) == Len(heap) + 1

Remove(seq, x) == SelectSeq(seq, LAMBDA c : c # x)

\* variant: the child replaces the children (replaceChildren(child))
AppendChild_Replace(heap, parent, child) ==
    [heap EXCEPT ![parent].children = <<child>>]

\* variant: the child is inserted first (insertBefore(child, firstChild))
AppendChild_Prepend(heap, parent, child) ==
    [heap EXCEPT ![parent].children = <<child>> \o Remove(@, child)]

\* parent.appendChild(child): child becomes the last child of parent
AppendChild(heap, parent, child) ==
    [heap EXCEPT ![parent].children = Append(Remove(@, child), child)]

\* variant: the value is taken as a string as is, a number has no text
DOMString_StringsOnly(v) == v.s

Digit(d) ==
    CASE d = 0 -> "0" [] d = 1 -> "1" [] d = 2 -> "2" [] d = 3 -> "3"
      [] d = 4 -> "4" [] d = 5 -> "5" [] d = 6 -> "6" [] d = 7 -> "7"
      [] d = 8 -> "8" [] d = 9 -> "9"

RECURSIVE Decimal(_)
Decimal(n) == IF n < 10 THEN Digit(n) ELSE Decimal(n \div 10) \o Digit(n % 10)

\* the DOMString conversion applied by `td.innerText = cell`
DOMString(v) ==
    CASE v.t = "string" -> v.s
      [] v.t = "number" -> IF v.n < 0 THEN "-" \o Decimal(-v.n) ELSE Decimal(v.n)
      [] v.t = "null"   -> ""

SetInnerText(heap, e, v) == [heap EXCEPT ![e].text = DOMString(v)]

\* whether `x.forEach` is callable
HasForEach(x) == x.t = "array"

(* ------------------------------ the page ------------------------------- *)
Page(idAttr, n) ==
    <<[Node("table", idAttr, <<>>) EXCEPT !.children = [k \in 1..n |-> k + 1]]>>
    \o [k \in 1..n |-> Node("tr", "", <<>>)]

Init ==
    /\ \E idAttr \in {"ranking", "tabla"}, n \in 0..MaxInit : elems = Page(idAttr, n)
    /\ elems0 = elems
    /\ pc = "start"
    /\ response = NoResponse
    /\ data = JUndefined
    /\ table = Null /\ tr = Null /\ i = 0 /\ j = 0
    /\ requests = 0 /\ resumedOk = 0 /\ resumedErr = 0 /\ settled = 0 /\ lookups = 0

(* ----------------------------- the chain ------------------------------- *)
locals   == <<table, tr, i, j>>
counters == <<requests, resumedOk, resumedErr, settled, lookups>>

\* line 1: fetch("/data")
Fetch ==
    /\ pc = "start"
    /\ requests' = requests + 1
    /\ pc' = "pending"
    /\ UNCHANGED <<elems, elems0, response, data, locals, resumedOk, resumedErr, settled, lookups>>

\* variant: a failed request is issued again
FetchReject_Retry ==
    /\ pc = "pending"
    /\ pc' = "start"
    /\ resumedErr' = resumedErr + 1
    /\ UNCHANGED <<elems, elems0, response, data, locals, requests, resumedOk, settled, lookups>>

\* line 1: the request fails at network level; nothing handles the rejection
FetchReject ==
    /\ pc = "pending"
    /\ pc' = "rejected"
    /\ resumedErr' = resumedErr + 1
    /\ settled' = settled + 1
    /\ UNCHANGED <<elems, elems0, response, data, locals, requests, resumedOk, lookups>>

\* line 1-2: a response arrives, whatever its status; res.json() starts
FetchResolve ==
    /\ pc = "pending"
    /\ \E r \in Responses : response' = r
    /\ pc' = "json"
    /\ resumedOk' = resumedOk + 1
    /\ UNCHANGED <<elems, elems0, data, locals, requests, resumedErr, settled, lookups>>

\* variant: a body that is not JSON is rendered as the empty payload
JsonReject_Fallback ==
    /\ pc = "json"
    /\ ~response.valid
    /\ data' = Arr(<<>>)
    /\ pc' = "lookup"
    /\ UNCHANGED <<elems, elems0, response, locals, counters>>

\* line 2: res.json() rejects on a body that is not JSON
JsonReject ==
    /\ pc = "json"
    /\ ~response.valid
    /\ pc' = "rejected"
    /\ settled' = settled + 1
    /\ UNCHANGED <<elems, elems0, response, data, locals, requests, resumedOk, resumedErr, lookups>>

\* line 2-3: res.json() fulfils with the parsed value
JsonResolve ==
    /\ pc = "json"
    /\ response.valid
    /\ data' = response.value
    /\ pc' = "lookup"
    /\ UNCHANGED <<elems, elems0, response, locals, counters>>

\* line 4: let table = document.getElementById("ranking")
Lookup ==
    /\ pc = "lookup"
    /\ table' = GetElementById(elems, "ranking")
    /\ lookups' = lookups + 1
    /\ pc' = "forEach"
    /\ UNCHANGED <<elems, elems0, response, data, tr, i, j, requests, resumedOk, resumedErr, settled>>

\* line 5: data.forEach on a value that has no forEach throws
DataForEachThrow ==
    /\ pc = "forEach"
    /\ ~HasForEach(data)
    /\ pc' = "rejected"
    /\ settled' = settled + 1
    /\ UNCHANGED <<elems, elems0, response, data, locals, requests, resumedOk, resumedErr, lookups>>

\* variant: the iteration starts at the second row
DataForEach_SkipFirst ==
    /\ pc = "forEach"
    /\ HasForEach(data)
    /\ i' = 2
    /\ pc' = "row"
    /\ UNCHANGED <<elems, elems0, response, data, table, tr, j, counters>>

\* line 5: data.forEach starts at the first row
DataForEach ==
    /\ pc = "forEach"
    /\ HasForEach(data)
    /\ i' = 1
    /\ pc' = "row"
    /\ UNCHANGED <<elems, elems0, response, data, table, tr, j, counters>>

\* variant: the row is attached to the container as soon as it is created
CreateRow_Attached ==
    /\ pc = "row"
    /\ i <= Len(data.items)
    /\ table # Null
    /\ elems' = AppendChild(CreateElement(elems, "tr", <<i>>), table, NewId(elems))
    /\ tr' = NewId(elems)
    /\ pc' = "rowForEach"
    /\ UNCHANGED <<elems0, response, data, table, i, j, counters>>

\* line 6: let tr = document.createElement("tr")
CreateRow ==
    /\ pc = "row"
    /\ i <= Len(data.items)
    /\ elems' = CreateElement(elems, "tr", <<i>>)
    /\ tr' = NewId(elems)
    /\ pc' = "rowForEach"
    /\ UNCHANGED <<elems0, response, data, table, i, j, counters>>

\* variant: a row that has no forEach is skipped
RowForEachThrow_Skip ==
    /\ pc = "rowForEach"
    /\ ~HasForEach(data.items[i])
    /\ i' = i + 1
    /\ pc' = "row"
    /\ UNCHANGED <<elems, elems0, response, data, table, tr, j, counters>>

\* line 7: row.forEach on a row that has no forEach throws
RowForEachThrow ==
    /\ pc = "rowForEach"
    /\ ~HasForEach(data.items[i])
    /\ pc' = "rejected"
    /\ settled' = settled + 1
    /\ UNCHANGED <<elems, elems0, response, data, locals, requests, resumedOk, resumedErr, lookups>>

\* line 7: row.forEach starts at the first cell
RowForEach ==
    /\ pc = "rowForEach"
    /\ HasForEach(data.items[i])
    /\ j' = 1
    /\ pc' = "cell"
    /\ UNCHANGED <<elems, elems0, response, data, table, tr, i, counters>>

\* lines 8-10: create the td, set its text, attach it to the row
Cell ==
    /\ pc = "cell"
    /\ j <= Len(data.items[i].items)
    /\ LET td == NewId(elems)
           h1 == CreateElement(elems, "td", <<i, j>>)
           h2 == SetInnerText(h1, td, data.items[i].items[j])
       IN  elems' = AppendChild(h2, tr, td)
    /\ j' = j + 1
    /\ UNCHANGED <<pc, elems0, response, data, table, tr, i, counters>>

\* variant: the append is skipped when there is no table (table?.appendChild)
AppendRowThrow_Skip ==
    /\ pc = "cell"
    /\ j > Len(data.items[i].items)
    /\ table = Null
    /\ i' = i + 1
    /\ pc' = "row"
    /\ UNCHANGED <<elems, elems0, response, data, table, tr, j, counters>>

\* line 12: table.appendChild(tr) with table === null throws
AppendRowThrow ==
    /\ pc = "cell"
    /\ j > Len(data.items[i].items)
    /\ table = Null
    /\ pc' = "rejected"
    /\ settled' = settled + 1
    /\ UNCHANGED <<elems, elems0, response, data, locals, requests, resumedOk, resumedErr, lookups>>

\* line 12: table.appendChild(tr), then the next row
AppendRow ==
    /\ pc = "cell"
    /\ j > Len(data.items[i].items)
    /\ table # Null
    /\ elems' = AppendChild(elems, table, tr)
    /\ i' = i + 1
    /\ pc' = "row"
    /\ UNCHANGED <<elems0, response, data, table, tr, j, counters>>

\* line 13-14: the rows are exhausted, the chain fulfils
Finish ==
    /\ pc = "row"
    /\ i > Len(data.items)
    /\ pc' = "done"
    /\ settled' = settled + 1
    /\ UNCHANGED <<elems, elems0, response, data, locals, requests, resumedOk, resumedErr, lookups>>

Next ==
    \/ Fetch \/ FetchReject \/ FetchResolve \/ JsonReject \/ JsonResolve
    \/ Lookup \/ DataForEachThrow \/ DataForEach \/ CreateRow
    \/ RowForEachThrow \/ RowForEach \/ Cell \/ AppendRowThrow \/ AppendRow
    \/ Finish

Spec == Init /\ [][Next]_vars

(* --------------------------- vocabulary -------------------------------- *)
Container  == GetElementById(elems0, "ranking")
HasRanking == Container # Null
Initial    == elems0[Container].children
Children   == elems[Container].children
Appended   == SubSeq(Children, Len(Initial) + 1, Len(Children))
Settled    == pc \in {"done", "rejected"}

IsPrefix(s, t) == Len(s) <= Len(t) /\ SubSeq(t, 1, Len(s)) = s

ArrayOfArrays(v) == v.t = "array" /\ \A k \in 1..Len(v.items) : v.items[k].t = "array"

\* the string form of a scalar: a string is itself, a number its decimal numeral
StringForm(v) == IF v.t = "string" THEN v.s ELSE ToString(v.n)

\* the row element at position k of the appended rows renders payload row k
Renders(k) ==
    LET row == elems[Appended[k]]
        r   == data.items[k].items
    IN  /\ row.tag = "tr"
        /\ Len(row.children) = Len(r)
        /\ \A c \in 1..Len(r) :
              /\ elems[row.children[c]].tag = "td"
              /\ elems[row.children[c]].text = StringForm(r[c])

\* the row element at position k was created for payload row k, cell by cell
CreatedFor(k) ==
    LET row == elems[Appended[k]]
    IN  /\ row.src = <<k>>
        /\ \A c \in 1..Len(row.children) : elems[row.children[c]].src = <<k, c>>

TypeOK == pc \in {"start", "pending", "json", "lookup", "forEach", "row",
                  "rowForEach", "cell", "done", "rejected"}

(* ------------------------------ claims --------------------------------- *)

C2_OrderPreserved ==
    HasRanking
        => /\ \A k \in 1..Len(Appended) : CreatedFor(k)
           /\ pc = "done" => Len(Appended) = Len(data.items)

C2_Witness ==
    /\ HasRanking /\ pc = "done" /\ Len(Initial) > 0
    /\ Len(Appended) = 2
    /\ \A k \in 1..2 : Len(elems[Appended[k]].children) = 2

\* C3: a non-success response (HTTP 500), whatever its body, appends no row
\* and the chain does not complete normally.
C3_NonSuccessRendersNothing ==
    response.status = 500
        => /\ pc # "done"
           /\ HasRanking => Children = Initial

\* C4 as stated: without a `ranking` element every successfully parsed
\* payload, the empty array included, ends the chain in a failure.
C4_MissingContainerAlwaysFails ==
    (~HasRanking /\ lookups = 1 /\ Settled) => pc = "rejected"

\* C4 amended: without a `ranking` element the chain ends in a failure for
\* every successfully parsed payload except the empty array, for which it
\* completes normally; in no case is any existing element touched.
C4_MissingContainerFailsUnlessEmpty ==
    (~HasRanking /\ lookups = 1)
        => /\ table = Null
           /\ Settled => (pc = "done" <=> data = Arr(<<>>))
           /\ IsPrefix(elems0, elems)

C4_Witness ==
    /\ ~HasRanking /\ lookups = 1 /\ pc = "rejected"
    /\ ArrayOfArrays(data) /\ Len(data.items) > 0
    /\ tr # Null /\ Len(elems[tr].children) = 2

\* C5: with the container present, the payload [] appends no row, creates no
\* element and leaves the container's children as they were; the payload
\* [[]] appends exactly one row, and that row holds no cell.
C5_EmptyPayloads ==
    (HasRanking /\ Settled)
        => /\ data = Arr(<<>>)
                => pc = "done" /\ elems = elems0
           /\ data = Arr(<<Arr(<<>>)>>)
                => /\ pc = "done"
                   /\ Len(Appended) = 1
                   /\ IsPrefix(Initial, Children)
                   /\ elems[Appended[1]].tag = "tr"
                   /\ elems[Appended[1]].children = <<>>
                   /\ Len(elems) = Len(elems0) + 1

C5_Witness ==
    /\ HasRanking /\ pc = "done" /\ Len(Initial) > 0
    /\ data = Arr(<<Arr(<<>>)>>)
    /\ Len(Children) = Len(Initial) + 1

\* C6: one request is issued and the flow resumes once: at most one request,
\* one resumption (fulfilment or rejection of the fetch, never both) and one
\* settlement ever happen, the request is out as soon as the script has
\* started, and a settled chain has seen exactly one of each.
C6_ExactlyOnce ==
    /\ requests <= 1 /\ resumedOk + resumedErr <= 1 /\ settled <= 1
    /\ pc # "start" => requests = 1
    /\ pc \notin {"start", "pending"} => resumedOk + resumedErr = 1
    /\ Settled <=> settled = 1
    /\ pc = "done" => resumedOk = 1

C6_Witness == pc = "rejected" /\ resumedErr = 1 /\ requests = 1 /\ settled = 1

C7_Inv ==
    HasRanking
        => /\ IsPrefix(Initial, Children)
           /\ \A e \in 1..Len(elems0) : e # Container => elems[e] = elems0[e]
           /\ \A k \in 1..Len(Appended) : Appended[k] > Len(elems0)

C7_Step == HasRanking => IsPrefix(Children, Children')

\* C7: the container only grows: its original children stay, unchanged and in
\* order, as a prefix of its children, every added row comes after them, and
\* no step removes, reorders or replaces a child.
C7_ContainerOnlyGrows == []C7_Inv /\ [][C7_Step]_vars

C7_Witness ==
    /\ HasRanking /\ Len(Initial) > 0 /\ Len(Appended) = 2 /\ pc = "done"

\* C8: when the request fails or the body is not JSON, the chain ends rejected
\* with the page untouched: no lookup of the container, no element created,
\* every element (the container's children included) as before.
C8_EarlyFailureLeavesPage ==
    (resumedErr = 1 \/ (resumedOk = 1 /\ ~response.valid))
        => /\ lookups = 0 /\ table = Null
           /\ elems = elems0
           /\ Settled => pc = "rejected"
           /\ pc \in {"json", "rejected"}

C8_Witness ==
    /\ pc = "rejected" /\ resumedOk = 1 /\ ~response.valid
    /\ HasRanking /\ Len(Initial) > 0

C9_Inv ==
    HasRanking
        => \A k \in 1..Len(Appended) :
              Len(elems[Appended[k]].children) = Len(data.items[k].items)

C9_Step ==
    HasRanking
        => \A k \in 1..Len(Children) :
              elems'[Children[k]].children = elems[Children[k]].children

\* C9: a row enters the container only once complete: every row the script
\* has placed in the container holds as many cells as its payload row has
\* values, and no step adds a cell to a row that is in the container.
C9_RowCompleteBeforeAttach == []C9_Inv /\ [][C9_Step]_vars

C9_Witness ==
    /\ HasRanking /\ pc = "cell" /\ i = 2 /\ j = 2
    /\ Len(Appended) = 1 /\ Len(elems[Appended[1]].children) = 2
    /\ Len(elems[tr].children) = 1

HasNonSeq(v) == v.t = "array" /\ \E k \in 1..Len(v.items) : v.items[k].t # "array"
\* number of rows before the first non-sequence row (its 0-based index)
FirstNonSeq(v) ==
    (CHOOSE k \in 1..Len(v.items) :
        /\ v.items[k].t # "array"
        /\ \A m \in 1..(k - 1) : v.items[m].t = "array") - 1

\* C10: with the container present and a payload array whose first
\* non-sequence row is at index k, the chain ends in a failure without
\* rollback: exactly the k rows before it are in the container, complete and
\* in payload order, and no row at index k or later is ever appended.
C10_FailsAtFirstNonSequence ==
    (HasRanking /\ HasNonSeq(data))
        => /\ Len(Appended) <= FirstNonSeq(data)
           /\ Settled
                => /\ pc = "rejected"
                   /\ Len(Appended) = FirstNonSeq(data)
                   /\ \A k \in 1..Len(Appended) : Renders(k) /\ CreatedFor(k)

C10_Witness ==
    /\ HasRanking /\ pc = "rejected"
    /\ HasNonSeq(data) /\ FirstNonSeq(data) = 1
    /\ Len(Appended) = 1 /\ Len(elems[Appended[1]].children) = 2
====
